---- MODULE Spec2Model ----
(***************************************************************************)
(* Real-time pipeline-status synchronisation of the Audit frontend.        *)
(*                                                                         *)
(* One PipelineProgress component (components/PipelineProgress.tsx) is     *)
(* mounted for one call and owns one useWebSocket subscription             *)
(* (hooks/useWebSocket.ts).  The model follows React 18 (Next.js 14):      *)
(*   - state setters called from a socket handler are queued (pend) and    *)
(*     committed by the next render; a render whose resulting state is     *)
(*     identical to the committed one bails out (no effect runs);          *)
(*   - every committed render of PipelineProgress creates a new inline     *)
(*     onMessage, hence a new connect, hence the effect of useWebSocket    *)
(*     is cleaned up and run again;                                        *)
(*   - a render and the effects it commits are one step.                   *)
(* The browser WebSocket follows the WHATWG standard: close() moves the    *)
(* socket to CLOSING synchronously, its close event is delivered later,    *)
(* message events are dispatched only while the socket is OPEN, and a      *)
(* failed connection fires error then close with readyState CLOSED.        *)
(* A socket that is CLOSED with no reconnect timer pending can do nothing   *)
(* more: its slot is reused, and a reference to it reads as 0.             *)
(* Time: a 3000 ms reconnect timer does not expire before a render that    *)
(* was already scheduled when the timer was set (timer value "fresh"; it   *)
(* is "armed" once that render has run or bailed out).                     *)
(*                                                                         *)
(* The component is rendered by CallDetailPage (app/calls/[id]/page.tsx),  *)
(* which holds the results fetched from the job store (page, store): the   *)
(* page unmounts PipelineProgress while it is loading or once the call is  *)
(* terminal, and mounts a new instance afterwards; sockets and timers of   *)
(* an earlier instance live on with the refs of that instance (gone).      *)
(* PipelineProgress keeps its state when it is rendered with another       *)
(* callId; a socket keeps the path it was created with (job).              *)
(* BatchPage (batch) polls the list of calls of a batch; it shares nothing *)
(* with the other two and is explored on its own.                          *)
(***************************************************************************)
EXTENDS Integers, Sequences, FiniteSets, TLC

MaxSockets == 2
MaxComplete == 2
MaxFetch == 2
MaxLoads == 2
MaxCalls == 2

SockIds == 1..MaxSockets

(* The ids of the calls a page can be opened for. *)
CallIds == 1..MaxCalls

(***************************************************************************)
(* Inbound frames.  body: "garbage" is not JSON, "null" is the JSON value  *)
(* null, "object" is a JSON object; has is the set of payload fields that  *)
(* are present and not null.                                               *)
(***************************************************************************)
StVadRun == [stage |-> "vad", status |-> "running"]
StVadOk  == [stage |-> "vad", status |-> "completed"]
StAsrRun == [stage |-> "asr", status |-> "running"]
StAsrOk  == [stage |-> "asr", status |-> "completed"]

AllFields == {"stages", "progress_pct", "call_status"}

Frame(b, t, h, s, p, c) ==
    [body |-> b, type |-> t, has |-> h, stages |-> s, progress_pct |-> p,
     call_status |-> c]

NoFrame == Frame("none", "none", {}, <<>>, 0, "")

FProgress10 ==
    Frame("object", "pipeline_progress", AllFields, <<StVadRun>>, 10, "processing")
FProgress60 ==
    Frame("object", "pipeline_progress", AllFields, <<StVadOk, StAsrRun>>, 60, "processing")
FProgress150 ==
    Frame("object", "pipeline_progress", AllFields, <<StAsrRun, StVadOk>>, 150, "processing")
FProgressNeg ==
    Frame("object", "pipeline_progress", AllFields, <<StVadRun, StVadRun>>, -5, "queued")
FProgressBare == Frame("object", "pipeline_progress", {}, <<>>, 0, "")
FComplete100 ==
    Frame("object", "pipeline_complete", AllFields, <<StVadOk, StAsrOk>>, 100, "completed")
FFailed40 ==
    Frame("object", "pipeline_complete", AllFields, <<StVadOk, StAsrRun>>, 40, "failed")
(* Frames whose type and call_status disagree, and pipeline_complete frames
   without stages or without progress_pct. *)
FProgressDone ==
    Frame("object", "pipeline_progress", AllFields, <<StVadOk, StAsrOk>>, 100, "completed")
FCompleteProcessing ==
    Frame("object", "pipeline_complete", AllFields, <<StVadOk, StAsrRun>>, 60, "processing")
FCompleteEmpty40 ==
    Frame("object", "pipeline_complete", AllFields, <<>>, 40, "failed")
FCompleteNoPct ==
    Frame("object", "pipeline_complete", {"stages", "call_status"}, <<StVadOk, StAsrOk>>,
          0, "completed")
FCompleteBare == Frame("object", "pipeline_complete", {"call_status"}, <<>>, 0, "completed")
FPing == Frame("object", "ping", {}, <<>>, 0, "")
FNoType == Frame("object", "none", AllFields, <<StVadRun>>, 10, "processing")
FNull == Frame("null", "none", {}, <<>>, 0, "")
FGarbage == Frame("garbage", "none", {}, <<>>, 0, "")

(* The frames the push server may send, by the part of the client they exercise. *)
ReducerFrames == {FProgress10, FProgress60, FProgress150, FProgressNeg, FComplete100, FFailed40}
DecoderFrames == {FProgress10, FProgressBare, FPing, FNoType, FNull, FGarbage}
ChannelFrames == {FProgress10, FComplete100}
ReconnectFrames == {FProgress10}
TerminalFrames ==
    {FProgressDone, FCompleteProcessing, FCompleteEmpty40, FCompleteNoPct, FCompleteBare,
     FFailed40}
Frames == ReducerFrames \cup DecoderFrames \cup ChannelFrames \cup TerminalFrames

VARIABLES
    stages, progressPct, callStatus, done, connected,  \* committed React state
    pend,            \* state values queued by setters, committed by the next render
    stagesFresh,     \* a setStages call is queued (a new array is never Object.is-equal)
    mounted,         \* PipelineProgress is mounted
    unmounted,       \* useWebSocket: unmounted.current
    wsRef,           \* useWebSocket: wsRef.current (0: null or a dead socket)
    reconnectTimer,  \* useWebSocket: reconnectTimer.current, named by the socket
                     \* whose onclose set it (0: null or a timer no longer pending)
    sock,            \* the WebSockets that can still act
    completeCalls,   \* number of onComplete invocations
    completeApplied, \* number of pipeline_complete frames applied by onMessage
    lastOp, lastFrame,  \* the step just taken and the frame it delivered
    made,            \* the step just taken called new WebSocket
    page,            \* CallDetailPage: data, loading, requests and timers
    store,           \* the status of the call in the job store
    batch,           \* BatchPage: calls, loading, interval and requests
    callId           \* the callId prop of PipelineProgress

env == <<store, batch, callId>>
view == <<stages, progressPct, callStatus, done, connected>>
hook == <<unmounted, wsRef, reconnectTimer, sock>>
vars == <<stages, progressPct, callStatus, done, connected, pend, stagesFresh,
          mounted, unmounted, wsRef, reconnectTimer, sock,
          completeCalls, completeApplied, lastOp, lastFrame, made,
          page, store, batch, callId>>

Committed ==
    [stages |-> stages, progressPct |-> progressPct, callStatus |-> callStatus,
     done |-> done, connected |-> connected]

NoSock == [st |-> "none", timer |-> "none", en |-> FALSE, gone |-> FALSE, job |-> 0]

(* A socket just created by connect(): en and job are the enabled and the path
   (/ws/call/{callId}) the closure was created with. *)
NewSock(en, job) ==
    [st |-> "connecting", timer |-> "none", en |-> en, gone |-> FALSE, job |-> job]

Live(s) == sock[s].st \in {"connecting", "open"}

(* A render is scheduled: some queued value differs from the committed one. *)
Dirty == mounted /\ (stagesFresh \/ pend # Committed)

IsTerminalStatus(st) == st = "completed" \/ st = "failed"

InitialStatuses == {"queued", "processing"}

(* CallDetailPage with its results loaded: data.status is st, the page shows
   PipelineProgress, no request is in flight and no settle timer is pending.
   snapshot tells that fetchData was called since the last socket open. *)
PageShowing(st) ==
    [alive |-> TRUE, data |-> st, loading |-> FALSE, inflight |-> 0, settle |-> 0,
     snapshot |-> FALSE]

(* What the server answered to the last load that settled, and what
   fetchBatchCalls made of it. *)
NoAnswer == [kind |-> "none", calls |-> <<>>, scores |-> <<>>]
NoReturn == [rejected |-> FALSE, calls |-> <<>>]

(* No BatchPage is mounted.  The loads in flight are ordered by their start:
   old is the number of them (the oldest ones) started before the load whose
   response is rendered, qold the number started before the load whose
   response is queued; qstale tells that the queued response comes from a
   load that was among the old ones. *)
NoBatch ==
    [alive |-> FALSE, calls |-> <<>>, loading |-> FALSE, queued |-> FALSE,
     next |-> <<>>, interval |-> FALSE, inflight |-> 0,
     answer |-> NoAnswer, ret |-> NoReturn,
     old |-> 0, qold |-> 0, qstale |-> FALSE]

(***************************************************************************)
(* State after the first render and its effects: useState initialisers,    *)
(* then the effect of useWebSocket has run connect() once.                 *)
(***************************************************************************)
Init ==
    \E initialStatus \in InitialStatuses :
        /\ stages = <<>>
        /\ progressPct = 0
        /\ callStatus = initialStatus
        /\ done = IsTerminalStatus(initialStatus)
        /\ connected = FALSE
        /\ pend = [stages |-> <<>>, progressPct |-> 0, callStatus |-> initialStatus,
                   done |-> IsTerminalStatus(initialStatus), connected |-> FALSE]
        /\ stagesFresh = FALSE
        /\ mounted = TRUE
        /\ unmounted = FALSE
        /\ wsRef = 1
        /\ reconnectTimer = 0
        /\ sock = [s \in SockIds |-> IF s = 1 THEN NewSock(TRUE, 1) ELSE NoSock]
        /\ completeCalls = 0
        /\ completeApplied = 0
        /\ lastOp = "Mount"
        /\ lastFrame = NoFrame
        /\ made = TRUE
        /\ page = PageShowing(initialStatus)
        /\ store = initialStatus
        /\ batch = NoBatch
        /\ callId = 1

(***************************************************************************)
(* PipelineProgress.onMessage                                              *)
(***************************************************************************)
(* Mutant of IsRecognizedType: any frame that carries a type is applied. *)
IsRecognizedTypeAnyType(msg) == msg.type # "none"

IsRecognizedType(msg) ==
    msg.type = "pipeline_progress" \/ msg.type = "pipeline_complete"

(* (msg.stages as Stage[]) ?? [] *)
StagesOf(msg) == IF "stages" \in msg.has THEN msg.stages ELSE <<>>

(* (msg.progress_pct as number) ?? 0 *)
PctOf(msg) == IF "progress_pct" \in msg.has THEN msg.progress_pct ELSE 0

(* msg.call_status as string: an absent field is the value undefined *)
StatusOf(msg) == IF "call_status" \in msg.has THEN msg.call_status ELSE "undefined"

(* Mutant of OnMessage: the stage list is merged by stage key with the previous
   one instead of replacing it. *)
MergeByKey(old, new) ==
    SelectSeq(old, LAMBDA o : \A i \in 1..Len(new) : new[i].stage # o.stage) \o new

OnMessageMerging(p, msg) ==
    IF IsRecognizedType(msg)
    THEN LET p1 == [p EXCEPT !.stages = MergeByKey(p.stages, StagesOf(msg)),
                             !.progressPct = PctOf(msg),
                             !.callStatus = StatusOf(msg)]
         IN  IF msg.type = "pipeline_complete"
             THEN [p1 EXCEPT !.done = TRUE]
             ELSE p1
    ELSE p

(* The setters of one onMessage call, applied to the queued state p. *)
OnMessage(p, msg) ==
    IF IsRecognizedType(msg)
    THEN LET p1 == [p EXCEPT !.stages = StagesOf(msg),
                             !.progressPct = PctOf(msg),
                             !.callStatus = StatusOf(msg)]
         IN  IF msg.type = "pipeline_complete"
             THEN [p1 EXCEPT !.done = TRUE]
             ELSE p1
    ELSE p

(* onMessage reaches onComplete?.() *)
FiresOnComplete(msg) == IsRecognizedType(msg) /\ msg.type = "pipeline_complete"

(***************************************************************************)
(* useWebSocket                                                            *)
(***************************************************************************)
(* JSON.parse(event.data) throws on a payload that is not JSON. *)
JsonParseThrows(f) == f.body = "garbage"

(* onMessage?.(data) throws a TypeError on msg.type when data is null. *)
OnMessageThrows(f) == f.body = "null"

(* connect: if (unmounted.current || !enabled) return *)
ConnectProceeds(unm, en) == ~(unm \/ ~en)

(* Mutant of OnCloseActs: onclose never schedules a reconnect. *)
OnCloseNeverActs(unm) == FALSE

(* ws.onclose: if (!unmounted.current) { setConnected(false); setTimeout(...) } *)
OnCloseActs(unm) == ~unm

(* ws.onopen: if (!unmounted.current) setConnected(true) *)
OnOpenActs(unm) == ~unm

(* ws.close(): CONNECTING or OPEN becomes CLOSING; otherwise nothing. *)
WsClose(socks, s) ==
    IF s # 0 /\ socks[s].st \in {"connecting", "open"}
    THEN [socks EXCEPT ![s].st = "closing"]
    ELSE socks

(* if (reconnectTimer.current) clearTimeout(reconnectTimer.current) *)
ClearReconnect(socks, t) ==
    IF t # 0 /\ socks[t].timer # "none"
    THEN [socks EXCEPT ![t].timer = "none"]
    ELSE socks

(* The effect cleanup, after unmounted.current = true. *)
Cleanup(socks, t, ws) == WsClose(ClearReconnect(socks, t), ws)

(* A scheduled render has run: the timers set before it can now expire. *)
Aged(socks) ==
    [s \in SockIds |->
        IF socks[s].timer = "fresh" THEN [socks[s] EXCEPT !.timer = "armed"]
        ELSE socks[s]]

(* No render is scheduled once the queued state is p (a scheduled render whose
   state equals the committed one bails out): every timer set so far is older
   than any render scheduled later. *)
Settle(socks, p) ==
    IF mounted /\ (stagesFresh \/ p # Committed) THEN socks ELSE Aged(socks)

(* Sockets that are CLOSED with no timer pending give their slot back. *)
Dead(r) == r.st = "closed" /\ r.timer = "none"

Collect(socks) == [s \in SockIds |-> IF Dead(socks[s]) THEN NoSock ELSE socks[s]]

(* A reference to a collected socket reads as 0. *)
Ref(socks, r) == IF r # 0 /\ socks[r].st = "none" THEN 0 ELSE r

FreeSlots(socks) == {s \in SockIds : socks[s].st = "none"}

Alloc(socks) == CHOOSE s \in FreeSlots(socks) : \A t \in FreeSlots(socks) : s <= t

(* connect(): new WebSocket(url); wsRef.current = ws *)
Connect(socks, ws, unm, en, job) ==
    IF ConnectProceeds(unm, en)
    THEN [sock |-> [socks EXCEPT ![Alloc(socks)] = NewSock(en, job)],
          wsRef |-> Alloc(socks), made |-> Alloc(socks)]
    ELSE [sock |-> socks, wsRef |-> ws, made |-> 0]

(* The value queued by a setter; setters of an unmounted component do nothing. *)
Queue(p) == IF mounted THEN p ELSE pend

(* unmounted.current as the handlers of socket s read it: the ref of the
   component instance that created s; that of an instance that was unmounted
   and replaced by a new mount stays true. *)
Unm(s) == unmounted \/ sock[s].gone

(* ws.onclose of socket s: the new values of pend, sock and reconnectTimer. *)
OnClosePend(s) == IF OnCloseActs(Unm(s))
                  THEN Queue([pend EXCEPT !.connected = FALSE])
                  ELSE pend

OnCloseSock(socks, s) ==
    IF OnCloseActs(Unm(s))
    THEN [socks EXCEPT ![s].timer = "fresh"]
    ELSE socks

OnCloseTimerRef(s) == IF OnCloseActs(Unm(s)) THEN s ELSE reconnectTimer

Step(op, f, m) == lastOp' = op /\ lastFrame' = f /\ made' = (m # 0)

(* The close event of socket s is delivered: ws.onclose. *)
Closed(s, op) ==
    LET socks == Collect(Settle(OnCloseSock([sock EXCEPT ![s].st = "closed"], s),
                                OnClosePend(s)))
    IN  /\ sock' = socks
        /\ pend' = OnClosePend(s)
        /\ reconnectTimer' = Ref(socks, OnCloseTimerRef(s))
        /\ wsRef' = Ref(socks, wsRef)
        /\ Step(op, NoFrame, 0)
        /\ UNCHANGED <<view, stagesFresh, mounted, unmounted,
                       completeCalls, completeApplied, page, env>>

(* The handshake of socket s succeeds: ws.onopen. *)
SocketOpen(s) ==
    /\ sock[s].st = "connecting"
    /\ pend' = IF OnOpenActs(Unm(s))
               THEN Queue([pend EXCEPT !.connected = TRUE])
               ELSE pend
    /\ sock' = Settle([sock EXCEPT ![s].st = "open"], pend')
    /\ page' = [page EXCEPT !.snapshot = FALSE]
    /\ Step("SocketOpen", NoFrame, 0)
    /\ UNCHANGED <<view, stagesFresh, mounted, unmounted, wsRef, reconnectTimer,
                   completeCalls, completeApplied, env>>

(* handlePipelineComplete: setTimeout(fetchData, 1000) *)
HandlePipelineComplete(pg) == [pg EXCEPT !.settle = pg.settle + 1]

(* A frame arrives on the open socket s: ws.onmessage. *)
Message(s, f) ==
    /\ sock[s].st = "open"
    /\ (~JsonParseThrows(f) /\ ~OnMessageThrows(f) /\ FiresOnComplete(f))
          => completeCalls < MaxComplete
    /\ IF JsonParseThrows(f) \/ OnMessageThrows(f)
       THEN UNCHANGED <<pend, stagesFresh, completeCalls, completeApplied, page>>
       ELSE /\ pend' = IF sock[s].gone THEN pend ELSE Queue(OnMessage(pend, f))
            /\ stagesFresh' =
                   (stagesFresh \/ (mounted /\ ~sock[s].gone /\ IsRecognizedType(f)))
            /\ completeCalls' = completeCalls + (IF FiresOnComplete(f) THEN 1 ELSE 0)
            /\ completeApplied' =
                   completeApplied + (IF f.type = "pipeline_complete" THEN 1 ELSE 0)
            /\ page' = IF FiresOnComplete(f) THEN HandlePipelineComplete(page) ELSE page
    /\ Step("Message", f, 0)
    /\ UNCHANGED <<view, mounted, hook, env>>

(* The server closes socket s, or the connection is lost: ws.onclose. *)
ServerClose(s) ==
    /\ Live(s)
    /\ Closed(s, "ServerClose")

(* The connection of socket s fails: the socket is CLOSED, ws.onerror runs
   (ws.close() does nothing on a CLOSED socket), then ws.onclose. *)
SocketFail(s) ==
    /\ Live(s)
    /\ WsClose([sock EXCEPT ![s].st = "closed"], s)[s].st = "closed"
    /\ Closed(s, "SocketFail")

(* The close event of a socket the client closed: ws.onclose. *)
CloseEvent(s) ==
    /\ sock[s].st = "closing"
    /\ Closed(s, "CloseEvent")

(* The reconnect timer set by the onclose of socket s expires: connect(), the
   closure that created socket s. *)
TimerFire(s) ==
    /\ sock[s].timer = "armed"
    /\ LET fired == Collect([sock EXCEPT ![s].timer = "none"])
           c == Connect(fired, Ref(fired, wsRef), Unm(s), sock[s].en, sock[s].job)
       IN  /\ sock' = c.sock
           /\ wsRef' = c.wsRef
           /\ reconnectTimer' = Ref(fired, reconnectTimer)
           /\ Step("TimerFire", NoFrame, c.made)
    /\ UNCHANGED <<view, pend, stagesFresh, mounted, unmounted,
                   completeCalls, completeApplied, page, env>>

(* The done effect of PipelineProgress: deps [done, stages.length]. *)
DoneEffect(p) ==
    IF (p.done # done \/ Len(p.stages) # Len(stages))
       /\ p.done /\ Len(p.stages) = 0
    THEN [p EXCEPT !.progressPct = 100]
    ELSE p

(* A render of PipelineProgress with the callId prop job commits the queued
   state; the effect of useWebSocket is cleaned up and run again (connect has
   a new identity: unmounted.current = false; if (enabled) connect()), then
   the done effect runs. *)
CommitAs(op, job) ==
    /\ LET enabled == ~pend.done
           cleaned == Collect(Aged(Cleanup(sock, reconnectTimer, wsRef)))
           c == IF enabled
                THEN Connect(cleaned, Ref(cleaned, wsRef), FALSE, enabled, job)
                ELSE [sock |-> cleaned, wsRef |-> Ref(cleaned, wsRef), made |-> 0]
       IN  /\ (enabled /\ ConnectProceeds(FALSE, enabled)) => FreeSlots(cleaned) # {}
           /\ sock' = c.sock
           /\ wsRef' = c.wsRef
           /\ reconnectTimer' = Ref(cleaned, reconnectTimer)
           /\ Step(op, NoFrame, c.made)
    /\ stages' = pend.stages
    /\ progressPct' = pend.progressPct
    /\ callStatus' = pend.callStatus
    /\ done' = pend.done
    /\ connected' = pend.connected
    /\ pend' = DoneEffect(pend)
    /\ stagesFresh' = FALSE
    /\ mounted' = mounted
    /\ unmounted' = FALSE

Commit(op) == CommitAs(op, callId)

(* A scheduled render of PipelineProgress. *)
Render ==
    /\ Dirty
    /\ Commit("Render")
    /\ UNCHANGED <<completeCalls, completeApplied, page, env>>

(* PipelineProgress is unmounted: the effect cleanup runs and is not followed
   by a new run; queued renders are dropped. *)
Teardown(op) ==
    /\ mounted' = FALSE
    /\ unmounted' = TRUE
    /\ LET cleaned == Collect(Aged(Cleanup(sock, reconnectTimer, wsRef)))
       IN  /\ sock' = cleaned
           /\ wsRef' = Ref(cleaned, wsRef)
           /\ reconnectTimer' = Ref(cleaned, reconnectTimer)
    /\ Step(op, NoFrame, 0)
    /\ UNCHANGED <<view, pend, stagesFresh>>

(* PipelineProgress is rendered with another callId: the path changes, hence
   connect has a new identity and the effect runs again; the state of the
   component is kept (the element has no key). *)
CallIdChange ==
    /\ mounted
    /\ \E id \in CallIds \ {callId} :
          /\ callId' = id
          /\ CommitAs("CallIdChange", id)
    /\ UNCHANGED <<completeCalls, completeApplied, page, store, batch>>

(* The user leaves the page: CallDetailPage and PipelineProgress unmount. *)
Unmount ==
    /\ mounted
    /\ Teardown("Unmount")
    /\ page' = [page EXCEPT !.alive = FALSE]
    /\ UNCHANGED <<completeCalls, completeApplied, env>>

(***************************************************************************)
(* CallDetailPage.  A state update of the page and the render it causes    *)
(* are one step; the page shows PipelineProgress only when it is not       *)
(* loading and the call is queued or processing.                           *)
(***************************************************************************)
(* data?.status ?? "queued" *)
CallStatusOf(data) == IF data = "null" THEN "queued" ELSE data

IsProcessing(data) ==
    CallStatusOf(data) = "queued" \/ CallStatusOf(data) = "processing"

(* if (loading) return the loader; ... {isProcessing && <PipelineProgress/>} *)
Shows(pg) == pg.alive /\ ~pg.loading /\ IsProcessing(pg.data)

(* fetchData(): callsApi.getResults(callId) is sent. *)
FetchData(pg) ==
    [pg EXCEPT !.inflight = pg.inflight + 1, !.snapshot = TRUE]

(* A new PipelineProgress is mounted with initialStatus st: useState
   initialisers, fresh refs, then the effect of useWebSocket runs.  The sockets
   and timers of the previous instance keep the refs of that instance. *)
MountChild(st, op) ==
    /\ stages' = <<>>
    /\ progressPct' = 0
    /\ callStatus' = st
    /\ done' = IsTerminalStatus(st)
    /\ connected' = FALSE
    /\ pend' = [stages |-> <<>>, progressPct |-> 0, callStatus |-> st,
                done |-> IsTerminalStatus(st), connected |-> FALSE]
    /\ stagesFresh' = FALSE
    /\ mounted' = TRUE
    /\ unmounted' = FALSE
    /\ reconnectTimer' = 0
    /\ LET enabled == ~IsTerminalStatus(st)
           old == Collect(Aged([s \in SockIds |->
                     IF sock[s].st = "none" THEN sock[s]
                     ELSE [sock[s] EXCEPT !.gone = TRUE]]))
           c == Connect(old, 0, FALSE, enabled, callId)
       IN  /\ ConnectProceeds(FALSE, enabled) => FreeSlots(old) # {}
           /\ sock' = c.sock
           /\ wsRef' = c.wsRef
           /\ Step(op, NoFrame, c.made)

(* The page state becomes pg and CallDetailPage renders again: PipelineProgress
   is unmounted, mounted, or rendered again with a new onMessage. *)
PageRender(pg, op) ==
    /\ page' = pg
    /\ IF mounted /\ ~Shows(pg) THEN Teardown(op)
       ELSE IF ~mounted /\ Shows(pg) THEN MountChild(CallStatusOf(pg.data), op)
       ELSE IF mounted THEN Commit(op)
       ELSE /\ Step(op, NoFrame, 0)
            /\ UNCHANGED <<view, pend, stagesFresh, mounted, hook>>

(* The page state becomes pg without a render. *)
PageQuiet(pg, op) ==
    /\ page' = pg
    /\ Step(op, NoFrame, 0)
    /\ UNCHANGED <<view, pend, stagesFresh, mounted, hook>>

(* Mutant of FetchFailed: the catch handler calls fetchData again. *)
FetchFailedRetrying(pg) == FetchData([pg EXCEPT !.inflight = pg.inflight - 1])

(* .catch(() => { }): the request is over and nothing else happens. *)
FetchFailed(pg) == [pg EXCEPT !.inflight = pg.inflight - 1]

(* getResults resolves: .then((res) => setData(res.data)), then
   .finally(() => setLoading(false)). *)
FetchOk ==
    /\ page.inflight > 0
    /\ LET pg == [page EXCEPT !.inflight = page.inflight - 1]
       IN  IF page.alive
           THEN PageRender([pg EXCEPT !.data = store, !.loading = FALSE], "FetchOk")
           ELSE PageQuiet(pg, "FetchOk")
    /\ UNCHANGED <<completeCalls, completeApplied, env>>

(* getResults rejects: .catch(() => { }), then .finally(() => setLoading(false));
   setLoading(false) renders only if loading was true. *)
FetchFail ==
    /\ page.inflight > 0
    /\ IF page.alive /\ page.loading
       THEN PageRender([FetchFailed(page) EXCEPT !.loading = FALSE], "FetchFail")
       ELSE PageQuiet(FetchFailed(page), "FetchFail")
    /\ UNCHANGED <<completeCalls, completeApplied, env>>

(* The Refresh button: setLoading(true); fetchData(). *)
ManualRefresh ==
    /\ page.alive /\ ~page.loading
    /\ page.inflight < MaxFetch
    /\ PageRender(FetchData([page EXCEPT !.loading = TRUE]), "ManualRefresh")
    /\ UNCHANGED <<completeCalls, completeApplied, env>>

(* A timer set by handlePipelineComplete expires: fetchData(). *)
SettleTimer ==
    /\ page.settle > 0
    /\ page.inflight < MaxFetch
    /\ PageQuiet(FetchData([page EXCEPT !.settle = page.settle - 1]), "SettleTimer")
    /\ UNCHANGED <<completeCalls, completeApplied, env>>

(* The pipeline moves the call on in the job store. *)
StoreNext(st) ==
    IF st = "queued" THEN {"processing"}
    ELSE IF st = "processing" THEN {"completed", "failed"}
    ELSE {}

StoreAdvance ==
    /\ \E st \in StoreNext(store) : store' = st
    /\ Step("StoreAdvance", NoFrame, 0)
    /\ UNCHANGED <<view, pend, stagesFresh, mounted, hook, completeCalls,
                   completeApplied, page, batch, callId>>

(* No PipelineProgress is rendered. *)
NoProgress ==
    /\ stages = <<>>
    /\ progressPct = 0
    /\ callStatus = "queued"
    /\ done = FALSE
    /\ connected = FALSE
    /\ pend = [stages |-> <<>>, progressPct |-> 0, callStatus |-> "queued",
               done |-> FALSE, connected |-> FALSE]
    /\ stagesFresh = FALSE
    /\ mounted = FALSE
    /\ unmounted = FALSE
    /\ wsRef = 0
    /\ reconnectTimer = 0
    /\ sock = [s \in SockIds |-> NoSock]
    /\ completeCalls = 0
    /\ completeApplied = 0
    /\ lastFrame = NoFrame
    /\ made = FALSE
    /\ store = "processing"
    /\ callId = 1

(* CallDetailPage has just been mounted: loading, no data, and the mount effect
   has called fetchData(); PipelineProgress is not rendered yet. *)
DetailInit ==
    /\ NoProgress
    /\ lastOp = "PageMount"
    /\ page = [alive |-> TRUE, data |-> "null", loading |-> TRUE, inflight |-> 1,
               settle |-> 0, snapshot |-> TRUE]
    /\ batch = NoBatch

(***************************************************************************)
(* BatchPage.  The server answers the list request with a list of statuses *)
(* (the call at position i has id i) and each score request of a completed *)
(* call with an outcome.                                                   *)
(***************************************************************************)
SnapMixed == <<"completed", "processing", "failed", "completed", "processing">>
SnapDone == <<"completed", "failed">>
SnapQueued == <<"queued">>
SnapOdd == <<"completed", "cancelled">>

(* Lists whose statuses are those of the Call type, and all lists. *)
TypedSnapshots == {SnapMixed, SnapDone, SnapQueued, <<>>}
Snapshots == TypedSnapshots \cup {SnapOdd}

(* Outcome of one score request: a response with r.ok and a JSON body, a
   network error, a response that is not ok, a body that is not JSON. *)
ScoreOutcomes == {"ok", "network", "notok", "badbody"}

(* One outcome for each completed call of the list, none for the others. *)
RECURSIVE ScoreVectors(_)
ScoreVectors(L) ==
    IF L = <<>> THEN {<<>>}
    ELSE {<<oc>> \o o :
            oc \in (IF Head(L) = "completed" THEN ScoreOutcomes ELSE {"unused"}),
            o \in ScoreVectors(Tail(L))}

(* Outcome of the list request. *)
ListOutcomes == {"ok", "network", "notok", "badbody"}

(* Mutant of ScoreThrows: the score request is made without try/catch. *)
ScoreThrowsUncaught(oc) == oc \in {"network", "badbody"}

(* try { ... } catch { }: a rejected fetch or r.json() does not leave the
   mapper. *)
ScoreThrows(oc) == FALSE

(* The mapper of calls.map: the call with its score if it is completed, the
   request succeeded and r.ok; the call itself otherwise. *)
EnrichCall(id, st, oc) ==
    [id |-> id, status |-> st, scored |-> (st = "completed" /\ oc = "ok")]

(* fetchBatchCalls: what the promise settles with. *)
FetchBatchCalls(a) ==
    IF a.kind \in {"network", "badbody"}
    THEN [rejected |-> TRUE, calls |-> <<>>]
    ELSE IF a.kind = "notok"
    THEN [rejected |-> FALSE, calls |-> <<>>]
    ELSE IF \E i \in 1..Len(a.calls) : ScoreThrows(a.scores[i])
    THEN [rejected |-> TRUE, calls |-> <<>>]
    ELSE [rejected |-> FALSE,
          calls |-> [i \in 1..Len(a.calls) |->
                        EnrichCall(i, a.calls[i], a.scores[i])]]

Count(cs, st) == Cardinality({i \in 1..Len(cs) : cs[i].status = st})

(* calls.some(c => c.status === "queued" || c.status === "processing") *)
HasActive(cs) ==
    \E i \in 1..Len(cs) : cs[i].status = "queued" \/ cs[i].status = "processing"

(* Mutants of ArmsInterval: the effect always, or never, sets the interval. *)
ArmsIntervalAlways(cs) == TRUE
ArmsIntervalNever(cs) == FALSE

(* The auto-refresh effect: if (!hasActive) return; setInterval(load, 5000) *)
ArmsInterval(cs) == HasActive(cs)

(* Mutant of ClearInterval: the effect returns no cleanup. *)
ClearIntervalLeaks(iv) == iv

(* The cleanup of the auto-refresh effect: return () => clearInterval(interval) *)
ClearInterval(iv) == FALSE

BatchStep(b, op) ==
    /\ Step(op, NoFrame, 0)
    /\ batch' = b
    /\ UNCHANGED <<view, pend, stagesFresh, mounted, hook, completeCalls,
                   completeApplied, page, store, callId>>

Less(n, i) == IF i <= n THEN n - 1 ELSE n

(* The i-th oldest load() in flight settles: fetchBatchCalls resolves and
   setCalls(data), setLoading(false) are queued, or it rejects and load stops
   there. *)
LoadSettle(a, i) ==
    /\ batch.inflight > 0
    /\ i \in 1..batch.inflight
    /\ Step("LoadSettle", NoFrame, 0)
    /\ batch' =
          LET r == FetchBatchCalls(a)
              b == [batch EXCEPT !.inflight = batch.inflight - 1,
                                 !.answer = a, !.ret = r,
                                 !.old = Less(batch.old, i),
                                 !.qold = Less(batch.qold, i)]
          IN  IF batch.alive /\ ~r.rejected
              THEN [b EXCEPT !.queued = TRUE, !.next = r.calls,
                             !.qold = i - 1, !.qstale = (i <= batch.old)]
              ELSE b
    /\ UNCHANGED <<view, pend, stagesFresh, mounted, hook, completeCalls,
                   completeApplied, page, store, callId>>

(* The render scheduled by setCalls: calls is a new array, so the auto-refresh
   effect is cleaned up (clearInterval) and run again. *)
BatchRender ==
    /\ batch.alive /\ batch.queued
    /\ BatchStep([batch EXCEPT !.calls = batch.next, !.loading = FALSE,
                               !.queued = FALSE,
                               !.qstale = FALSE,
                               !.old = IF batch.qold > batch.old THEN batch.qold
                                       ELSE batch.old,
                               !.qold = 0,
                               !.interval = (ClearInterval(batch.interval)
                                             \/ ArmsInterval(batch.next))],
                 "BatchRender")

(* The interval elapses: load(). *)
Tick ==
    /\ batch.interval
    /\ batch.inflight < MaxLoads
    /\ BatchStep([batch EXCEPT !.inflight = batch.inflight + 1], "Tick")

(* The user leaves the batch page: the effect cleanup clears the interval. *)
BatchUnmount ==
    /\ batch.alive
    /\ BatchStep([batch EXCEPT !.alive = FALSE,
                               !.interval = ClearInterval(batch.interval),
                               !.queued = FALSE, !.qold = 0, !.qstale = FALSE],
                 "BatchUnmount")

(* BatchPage has just been mounted: no calls, loading, the mount effect has
   called load() and the auto-refresh effect found nothing active. *)
BatchInit ==
    /\ NoProgress
    /\ lastOp = "BatchMount"
    /\ page = [alive |-> FALSE, data |-> "null", loading |-> FALSE, inflight |-> 0,
               settle |-> 0, snapshot |-> FALSE]
    /\ batch = [alive |-> TRUE, calls |-> <<>>, loading |-> TRUE, queued |-> FALSE,
                next |-> <<>>, interval |-> ArmsInterval(<<>>), inflight |-> 1,
                answer |-> NoAnswer, ret |-> NoReturn,
                old |-> 0, qold |-> 0, qstale |-> FALSE]

Answers(SS) ==
    UNION {{[kind |-> "ok", calls |-> L, scores |-> o] : o \in ScoreVectors(L)} :
              L \in SS}
    \cup {[kind |-> k, calls |-> <<>>, scores |-> <<>>] : k \in ListOutcomes \ {"ok"}}

AllAnswers == Answers(Snapshots)
TypedAnswers == Answers(TypedSnapshots)

BatchActions(AS) ==
    \/ \E i \in 1..MaxLoads, a \in AS : LoadSettle(a, i)
    \/ BatchRender
    \/ Tick
    \/ BatchUnmount

BatchNext == BatchActions(AllAnswers)
BatchSpec == BatchInit /\ [][BatchNext]_vars

(* The event loop runs every render and every elapsed interval, and every
   request is answered; the lists carry statuses of the Call type. *)
TypedBatchNext == BatchActions(TypedAnswers)
FairBatchSpec ==
    /\ BatchInit /\ [][TypedBatchNext]_vars
    /\ WF_vars(BatchRender)
    /\ WF_vars(Tick)
    /\ WF_vars(\E i \in 1..MaxLoads, a \in TypedAnswers : LoadSettle(a, i))

(* A batch whose calls never all finish: every list the server returns has a
   queued or processing call, and the list request can fail. *)
PollingAnswers == Answers({SnapMixed, SnapQueued})
PollingNext == BatchActions(PollingAnswers)
FairPollingSpec ==
    /\ BatchInit /\ [][PollingNext]_vars
    /\ WF_vars(BatchRender)
    /\ WF_vars(Tick)
    /\ WF_vars(\E i \in 1..MaxLoads, a \in PollingAnswers : LoadSettle(a, i))

Actions(FS) ==
    \/ \E s \in SockIds : SocketOpen(s)
    \/ \E s \in SockIds, f \in FS : Message(s, f)
    \/ \E s \in SockIds : ServerClose(s)
    \/ \E s \in SockIds : SocketFail(s)
    \/ \E s \in SockIds : CloseEvent(s)
    \/ \E s \in SockIds : TimerFire(s)
    \/ Render
    \/ Unmount

Next == Actions(Frames)

Spec == Init /\ [][Next]_vars

(* The reducer, for a call that was processing when the page loaded. *)
ReducerInit == Init /\ callStatus = "processing"
ReducerNext == Actions(ReducerFrames)
ReducerSpec == ReducerInit /\ [][ReducerNext]_vars

DecoderNext == Actions(DecoderFrames)
DecoderSpec == Init /\ [][DecoderNext]_vars

ChannelNext == Actions(ChannelFrames)
ChannelSpec == Init /\ [][ChannelNext]_vars

(* Progress frames with percentages within 0..100, in any order. *)
ProgressFrames == {FProgress10, FProgress60}
ProgressNext == Actions(ProgressFrames)
ProgressSpec == ReducerInit /\ [][ProgressNext]_vars

(* PipelineProgress rendered for one call, then for another. *)
JobSwitchNext == Actions(ChannelFrames) \/ CallIdChange
JobSwitchSpec == Init /\ [][JobSwitchNext]_vars

(* The terminal transition, for a call that was processing when the page
   loaded. *)
TerminalNext == Actions(TerminalFrames)
TerminalSpec == ReducerInit /\ [][TerminalNext]_vars

DetailFrames == {FProgress10, FComplete100}
DetailNext ==
    \/ Actions(DetailFrames)
    \/ FetchOk
    \/ FetchFail
    \/ ManualRefresh
    \/ SettleTimer
    \/ StoreAdvance
DetailSpec == DetailInit /\ [][DetailNext]_vars

(* The follow-up fetch after pipeline_complete, with the store at rest and a
   user who does not press Refresh. *)
SettleFrames == {FComplete100}
SettleNext ==
    \/ Actions(SettleFrames)
    \/ FetchOk
    \/ FetchFail
    \/ SettleTimer
SettleSpec == DetailInit /\ [][SettleNext]_vars

(* A call whose channel is lost while the pipeline finishes: the event loop
   runs every scheduled task, the server accepts every connection and every
   request is answered; the server is not obliged to send a frame and the user
   does not press Refresh. *)
ReconcileNext ==
    \/ Actions(ReconnectFrames)
    \/ FetchOk
    \/ FetchFail
    \/ StoreAdvance
FairDetailSpec ==
    /\ DetailInit /\ [][ReconcileNext]_vars
    /\ WF_vars(Render)
    /\ WF_vars(FetchOk \/ FetchFail)
    /\ \A s \in SockIds :
          WF_vars(TimerFire(s)) /\ WF_vars(SocketOpen(s)) /\ WF_vars(CloseEvent(s))

(* A server that accepts every connection and never closes one, a call that
   stays processing and a component that stays mounted; the event loop runs
   every scheduled task and every handshake and close event is delivered. *)
SteadyNext ==
    \/ \E s \in SockIds : SocketOpen(s)
    \/ \E s \in SockIds, f \in ReconnectFrames : Message(s, f)
    \/ \E s \in SockIds : CloseEvent(s)
    \/ \E s \in SockIds : TimerFire(s)
    \/ Render
FairSteadySpec ==
    /\ Init /\ [][SteadyNext]_vars
    /\ WF_vars(Render)
    /\ \A s \in SockIds :
          WF_vars(TimerFire(s)) /\ WF_vars(SocketOpen(s)) /\ WF_vars(CloseEvent(s))

(* The event loop runs every scheduled task: renders and expired timers. *)
ReconnectNext == Actions(ReconnectFrames)
FairChannelSpec ==
    /\ Init /\ [][ReconnectNext]_vars
    /\ WF_vars(Render)
    /\ \A s \in SockIds : WF_vars(TimerFire(s))

(***************************************************************************)
(* The JobView the setters have produced so far: what the next render of   *)
(* PipelineProgress displays.                                              *)
(***************************************************************************)
JobView ==
    [stages |-> pend.stages, percentage |-> pend.progressPct,
     jobStatus |-> pend.callStatus, done |-> pend.done]

(* C1: once a pipeline_complete frame has been applied and done is true, a
   frame delivered afterwards leaves stages, percentage, jobStatus and done
   unchanged. *)
C1_TerminalAbsorbing ==
    [][(mounted /\ done /\ lastOp' = "Message") => JobView' = JobView]_vars

(* C2: the completion callback is invoked at most once for the job, and once
   as soon as a pipeline_complete frame has been applied. *)
C2_CompleteOnce ==
    /\ completeCalls <= 1
    /\ completeApplied >= 1 => completeCalls = 1

(* C3: at most one WebSocket of the subscription is connecting or open. *)
C3_OneLiveSocket == Cardinality({s \in SockIds : Live(s)}) <= 1

(* C4: after the unmount no reconnect timer is pending, none is scheduled, and
   no WebSocket is created. *)
C4_UnmountCancels ==
    [][~mounted' => ((\A s \in SockIds : sock'[s].timer = "none") /\ ~made')]_vars

(* C5: once the job is terminal in a mounted component, no WebSocket is
   created for it and no reconnect timer is left to expire. *)
C5_TerminalNeverReopens ==
    [][(mounted /\ done) => ~made']_vars
(* An abnormal close or an error of a socket has just been handled while the
   subscription is mounted and enabled. *)
AbnormalClose ==
    lastOp \in {"ServerClose", "SocketFail"} /\ mounted /\ ~done

(* C6: while the subscription is mounted and enabled, every abnormal close or
   error of its socket is eventually followed by a new connection attempt. *)
C6_AlwaysReconnects ==
    AbnormalClose ~> (made \/ ~mounted \/ done)
(* A reconnect is scheduled for a socket that has just failed. *)
C6_Witness ==
    /\ AbnormalClose
    /\ ~connected /\ ~Dirty
    /\ \E s \in SockIds : sock[s].st = "closed" /\ sock[s].timer = "armed"

(* The frame is not decodable JSON, or its type is not a pipeline event. *)
Undecodable(f) ==
    f.body # "object" \/ f.type \notin {"pipeline_progress", "pipeline_complete"}

(* C7: a frame that is not decodable JSON or whose type is not recognized
   changes no JobView field, invokes no completion callback and leaves every
   connection as it is. *)
C7_NoiseIgnored ==
    [][(lastOp' = "Message" /\ Undecodable(lastFrame'))
          => (JobView' = JobView
              /\ UNCHANGED <<view, pend, stagesFresh, completeCalls, hook>>)]_vars

(* A ping frame has been delivered to a mounted view that shows progress. *)
C7_Witness ==
    /\ lastOp = "Message" /\ lastFrame = FPing
    /\ mounted /\ JobView.percentage = 10 /\ JobView.stages = <<StVadRun>>
    /\ \E s \in SockIds : sock[s].st = "open"

(* The frame has a recognized type but lacks a payload field. *)
Misshaped(f) ==
    /\ f.body = "object"
    /\ f.type \in {"pipeline_progress", "pipeline_complete"}
    /\ f.has # AllFields

(* C8: a frame with a recognized type but not the expected shape is discarded
   entirely: no JobView field changes. *)
C8_MisshapedDiscarded ==
    [][(mounted /\ lastOp' = "Message" /\ Misshaped(lastFrame'))
          => JobView' = JobView]_vars

Clamp(n) == IF n < 0 THEN 0 ELSE IF n > 100 THEN 100 ELSE n

(* C9: after a pipeline_progress frame the percentage is that frame's
   progress_pct clamped to [0,100], and the percentage is within 0..100 in
   every reachable state. *)
C9_PercentageClamped ==
    /\ (mounted /\ lastOp = "Message" /\ lastFrame.type = "pipeline_progress"
            /\ "progress_pct" \in lastFrame.has)
          => JobView.percentage = Clamp(lastFrame.progress_pct)
    /\ JobView.percentage \in 0..100
    /\ progressPct \in 0..100

(* C10: after a pipeline_progress frame the stage list is exactly the frame's
   stages, in the frame's order, and jobStatus is the frame's call_status; the
   next render shows exactly these. *)
C10_WholesaleReplace ==
    /\ (mounted /\ lastOp = "Message" /\ lastFrame.body = "object"
            /\ lastFrame.type = "pipeline_progress"
            /\ {"stages", "call_status"} \subseteq lastFrame.has)
          => (JobView.stages = lastFrame.stages
              /\ JobView.jobStatus = lastFrame.call_status)
    /\ lastOp = "Render"
          => (stages = JobView.stages /\ callStatus = JobView.jobStatus)

(* A frame whose stages are the displayed ones in another order is applied. *)
C10_Witness ==
    /\ lastOp = "Message" /\ lastFrame = FProgress150 /\ mounted
    /\ stages = <<StVadOk, StAsrRun>>
    /\ JobView.stages = <<StAsrRun, StVadOk>>

(* C11: a frame changes the JobView only if fetchData was called since the
   last socket open: every successful open is followed by a snapshot fetch
   before a frame of the connection is applied. *)
C11_SnapshotOnOpen ==
    [][(lastOp' = "Message" /\ mounted /\ JobView' # JobView) => page.snapshot]_vars

(* The channel has just been lost after a pipeline_progress frame was applied,
   and the job store holds a terminal status. *)
LostAfterProgress ==
    /\ lastOp \in {"ServerClose", "SocketFail"}
    /\ page.alive /\ mounted /\ ~JobView.done
    /\ JobView.stages # <<>>
    /\ IsTerminalStatus(store)

(* A scheduled render needs more sockets than MaxSockets. *)
RenderBlocked ==
    /\ Dirty /\ ~pend.done
    /\ FreeSlots(Collect(Aged(Cleanup(sock, reconnectTimer, wsRef)))) = {}

(* C12: when the channel is lost after a pipeline_progress frame and the job
   store holds a terminal status, the view eventually is terminal with the
   status of the store and the completion callback has run exactly once
   (unless the user leaves the page). *)
C12_ReconcilesToTerminal ==
    LostAfterProgress
        ~> ((JobView.done /\ JobView.jobStatus = store /\ completeCalls = 1)
            \/ ~page.alive \/ RenderBlocked)

(* The BatchView of the rendered calls. *)
TotalCount == Len(batch.calls)
CompletedCount == Count(batch.calls, "completed")
FailedCount == Count(batch.calls, "failed")
InProgress == TotalCount - CompletedCount - FailedCount

AllTerminal(cs) == \A i \in 1..Len(cs) : IsTerminalStatus(cs[i].status)

(* C13: completedCount + failedCount <= totalCount, and hasActive holds
   exactly when completedCount + failedCount < totalCount, for every list
   the page renders. *)
C13_HasActiveMatchesCounts ==
    /\ CompletedCount + FailedCount <= TotalCount
    /\ HasActive(batch.calls) <=> (CompletedCount + FailedCount < TotalCount)

(* C14: while every call of the rendered list is completed or failed, no
   refresh interval is set, so no tick starts a load. *)
C14_NoRefreshWhenAllTerminal ==
    AllTerminal(batch.calls) => ~batch.interval

(* A list with an active call was rendered with the interval set; now a list
   of terminal calls is rendered and the interval is cleared. *)
C14_Witness ==
    /\ lastOp = "BatchRender" /\ batch.alive
    /\ batch.calls = FetchBatchCalls([kind |-> "ok", calls |-> SnapDone,
                                      scores |-> <<"ok", "unused">>]).calls
    /\ ~batch.interval /\ batch.inflight = 1

(* A list with a call that is not terminal has just been rendered. *)
ActiveRendered ==
    lastOp = "BatchRender" /\ batch.alive /\ ~AllTerminal(batch.calls)

(* C15: while the rendered list has a call that is not terminal and the page
   is mounted, the refresh interval is set, and after such a list is rendered
   a tick eventually starts another load, unless the page is left or a load
   already in flight replaces the list by one without such a call. *)
C15_RefreshWhileActive ==
    /\ []((batch.alive /\ ~AllTerminal(batch.calls)) => batch.interval)
    /\ ActiveRendered
          ~> (lastOp = "Tick" \/ ~batch.alive \/ AllTerminal(batch.calls))

(* Five calls, three terminal and two processing, are rendered: the interval
   is set and nothing is in flight. *)
C15_Witness ==
    /\ ActiveRendered
    /\ TotalCount = 5 /\ CompletedCount + FailedCount = 3
    /\ batch.interval /\ batch.inflight = 0

(* C16: at most one load is in flight. *)
C16_OneLoadInFlight == batch.inflight <= 1

(* C17: when the list request succeeds, fetchBatchCalls resolves, whatever
   the score requests did, with every call of the list in order with its
   status; a call has a score exactly if it is completed and its own score
   request succeeded. *)
C17_ScoreFailureIsolated ==
    (lastOp = "LoadSettle" /\ batch.answer.kind = "ok")
        => /\ ~batch.ret.rejected
           /\ Len(batch.ret.calls) = Len(batch.answer.calls)
           /\ \A i \in 1..Len(batch.answer.calls) :
                 /\ batch.ret.calls[i].id = i
                 /\ batch.ret.calls[i].status = batch.answer.calls[i]
                 /\ batch.ret.calls[i].scored
                       <=> (batch.answer.calls[i] = "completed"
                            /\ batch.answer.scores[i] = "ok")

(* The score request of call 1 met a network error and that of call 4
   succeeded: call 4 has its score, call 1 has none, all five are returned. *)
C17_Witness ==
    /\ lastOp = "LoadSettle"
    /\ batch.answer.kind = "ok" /\ batch.answer.calls = SnapMixed
    /\ batch.answer.scores[1] = "network" /\ batch.answer.scores[4] = "ok"
    /\ Len(batch.next) = 5 /\ batch.queued
    /\ ~batch.next[1].scored /\ batch.next[4].scored

(* C18: each pipeline_complete frame that reaches onMessage schedules exactly
   one settle timer and sends no request; an expired settle timer sends
   exactly one request; a failed request sends no request and schedules no
   timer; no other step than these and the Refresh button sends a request or
   schedules a timer. *)
C18_OneSettleFetch ==
    [][/\ (lastOp' = "Message" /\ lastFrame'.type = "pipeline_complete")
            => (page'.settle = page.settle + 1 /\ page'.inflight = page.inflight)
       /\ (lastOp' = "Message" /\ lastFrame'.type # "pipeline_complete")
            => (page'.settle = page.settle /\ page'.inflight = page.inflight)
       /\ lastOp' = "SettleTimer"
            => (page'.settle = page.settle - 1 /\ page'.inflight = page.inflight + 1)
       /\ lastOp' \in {"FetchFail", "FetchOk"}
            => (page'.settle = page.settle /\ page'.inflight = page.inflight - 1)
       /\ lastOp' \notin {"Message", "SettleTimer", "FetchFail", "FetchOk", "ManualRefresh"}
            => (page'.settle = page.settle /\ page'.inflight = page.inflight)]_vars

(* The request sent by the settle timer of the only pipeline_complete frame
   has failed: nothing is in flight and no timer is pending. *)
C18_Witness ==
    /\ lastOp = "FetchFail"
    /\ mounted /\ done /\ completeCalls = 1
    /\ page.settle = 0 /\ page.inflight = 0

(* C19: a failed getResults request leaves data and the JobView as they were,
   sends no request and schedules no timer. *)
C19_FailedFetchKeepsView ==
    [][lastOp' = "FetchFail"
          => (page'.data = page.data /\ JobView' = JobView
              /\ page'.settle = page.settle
              /\ page'.inflight = page.inflight - 1)]_vars

(* C20: once PipelineProgress is unmounted, no frame reaches onMessage. *)
C20_LateFrameDropped ==
    [][~mounted => ~(lastOp' = "Message" /\ ~JsonParseThrows(lastFrame'))]_vars

(* C21: while the job is not terminal, a pipeline_progress frame never lowers
   the percentage of the JobView. *)
C21_PercentageMonotonic ==
    [][(mounted /\ ~JobView.done /\ lastOp' = "Message"
            /\ lastFrame'.type = "pipeline_progress" /\ ~JobView'.done)
          => JobView'.percentage >= JobView.percentage]_vars

(* C22: done is true exactly when callStatus is completed or failed, in the
   JobView and in the rendered state. *)
C22_DoneIffTerminal ==
    mounted => /\ JobView.done <=> IsTerminalStatus(JobView.jobStatus)
               /\ done <=> IsTerminalStatus(callStatus)

(* The percentage a pipeline_complete frame asks for. *)
TerminalPct(f) == IF "progress_pct" \in f.has THEN f.progress_pct ELSE 100

(* C23: the render that follows a pipeline_complete frame, with its effects,
   leaves the percentage at the frame's progress_pct when the frame has one,
   and at 100 when it has none. *)
C23_CompletePercentage ==
    [][(mounted /\ lastOp = "Message" /\ lastFrame.type = "pipeline_complete"
            /\ lastOp' = "Render")
          => JobView'.percentage = TerminalPct(lastFrame)]_vars

(* C24: once BatchPage is unmounted no refresh interval is set and no load is
   started, also when a load that was in flight settles. *)
C24_BatchTeardownCancels ==
    [][~batch'.alive
          => (~batch'.interval /\ ~batch'.queued
              /\ batch'.inflight <= batch.inflight /\ lastOp' # "Tick")]_vars

(* The page was left while it showed active calls and a load was in flight;
   that load has now settled with a list that still has active calls. *)
C24_Witness ==
    /\ ~batch.alive /\ lastOp = "LoadSettle"
    /\ HasActive(batch.calls)
    /\ batch.answer.kind = "ok" /\ batch.answer.calls = SnapMixed
    /\ batch.inflight = 0 /\ ~batch.interval

(* The socket wsRef.current is open. *)
CurrentOpen == wsRef # 0 /\ sock[wsRef].st = "open"

(* C25: while the subscription is mounted, the connected flag the handlers
   have set is true exactly when the current socket is open; in particular
   the close event of a replaced socket leaves it true while the current
   socket is open. *)
C25_ConnectedTracksSocket ==
    mounted => (pend.connected <=> CurrentOpen)

(* C26: a load whose list request failed (response not ok, network error or a
   body that is not JSON) does not reject and queues no replacement of the
   rendered list. *)
C26_FailedListKeepsBatch ==
    [][(lastOp' = "LoadSettle" /\ batch'.answer.kind # "ok" /\ batch.alive)
          => (~batch'.ret.rejected
              /\ batch'.queued = batch.queued /\ batch'.next = batch.next)]_vars

(* Some socket is open and every open socket was opened for another call than
   the one displayed. *)
ForeignOnly ==
    /\ \E s \in SockIds : sock[s].st = "open"
    /\ \A s \in SockIds : sock[s].st = "open" => sock[s].job # callId

(* C27: when the callId of a mounted PipelineProgress changes, the JobView is
   that of a call not yet observed (no stages, percentage 0, not done, status
   queued or processing); and a frame received on the socket of another call
   than the one displayed leaves the JobView unchanged. *)
C27_ViewPerJob ==
    [][/\ lastOp' = "CallIdChange"
            => (JobView'.stages = <<>> /\ JobView'.percentage = 0
                /\ ~JobView'.done /\ JobView'.jobStatus \in InitialStatuses)
       /\ (mounted /\ ForeignOnly /\ lastOp' = "Message") => JobView' = JobView]_vars

(* C28: with a server that accepts every connection and closes none, a call
   that is not terminal and a component that stays mounted, from some point on
   the current socket is open for ever: the client stops closing and reopening
   its own socket. *)
C28_ChannelStabilises ==
    <>[]CurrentOpen \/ <>RenderBlocked

(* C29: the rendered list is never replaced by the response of a load that
   was started before the load whose response was rendered until then. *)
C29_SnapshotsInOrder ==
    [][lastOp' = "BatchRender" => ~batch.qstale]_vars

(* C30: while the batch has a call that is not terminal and the page is
   mounted, the interval starts a load again and again, whatever the loads
   before it returned. *)
C30_PollingContinues ==
    []<>(lastOp = "Tick" \/ ~batch.alive)
====
